---- MODULE Spec2Model ----
(***************************************************************************)
(* A model of the Starter API client SDK: the header/URL helpers, the      *)
(* response validator, the StarterClient operations over an injected       *)
(* transport, the cache-key factory and handleApiError, and the two hooks: *)
(* their cached reads, the writes of useHistories with their mutations'    *)
(* errors and cache invalidation, and the memoized client.                 *)
(*                                                                         *)
(* JavaScript values are modelled by records of one shape per kind, with   *)
(* `t` holding what `typeof` answers and `nul` telling null from the other *)
(* values whose typeof is "object".  Strings are TLA+ strings, built with  *)
(* \o as the template literals of the source build them.                   *)
(***************************************************************************)
EXTENDS Integers, Sequences, FiniteSets, Bags, TLC

(***************************************************************************)
(* Bounds of the model.                                                    *)
(***************************************************************************)
\* Calls that may be awaiting the transport at the same time.
MaxInFlight == 1
\* Longest base URL / path / token drawn for the pure helpers.
MaxLen == 3
\* Calls of several callers awaiting the transport on one client.
MaxConcurrent == 2
\* Client instances the two hooks construct over their renders.
MaxClients == 4

(***************************************************************************)
(* JavaScript values.                                                      *)
(***************************************************************************)
\* A string-or-null argument (userId: string | null, token: ... | null).
NullStr == [nul |-> TRUE, s |-> ""]
Str(s) == [nul |-> FALSE, s |-> s]

\* `${v}` : the template literal's conversion of a string-or-null to a string.
TemplateStr(v) == IF v.nul THEN "null" ELSE v.s

\* !!v for a string-or-null.
Truthy(v) == ~v.nul /\ v.s # ""

\* A field value of a response body.
Val(t, nul, b, s) == [t |-> t, nul |-> nul, b |-> b, s |-> s]
VUndefined == Val("undefined", FALSE, FALSE, "")
VNull == Val("object", TRUE, FALSE, "")
VBool(b) == Val("boolean", FALSE, b, "")
VStr(s) == Val("string", FALSE, FALSE, s)
VNum(s) == Val("number", FALSE, FALSE, s)
VObj(s) == Val("object", FALSE, FALSE, s)

\* A response body (response.data: unknown).  `has` is the set of its own
\* keys; a key that is absent reads as undefined.
Body(t, nul, b, s, has, success, data, error) ==
    [t |-> t, nul |-> nul, b |-> b, s |-> s, has |-> has,
     success |-> success, data |-> data, error |-> error]
Prim(v) == Body(v.t, v.nul, v.b, v.s, {}, VUndefined, VUndefined, VUndefined)
Obj(has, success, data, error) ==
    Body("object", FALSE, FALSE, "", has,
         IF "success" \in has THEN success ELSE VUndefined,
         IF "data" \in has THEN data ELSE VUndefined,
         IF "error" \in has THEN error ELSE VUndefined)
BUndefined == Prim(VUndefined)

\* The response bodies the transport is let to answer with: the cases of
\* the client's tests and their neighbours.
Bodies ==
    { Prim(VNull),
      BUndefined,
      Prim(VStr("not an object")),
      Prim(VBool(TRUE)),
      Obj({}, VUndefined, VUndefined, VUndefined),
      Obj({"data"}, VUndefined, VStr("some data"), VUndefined),
      Obj({"success", "data"}, VStr("yes"), VObj("{}"), VUndefined),
      Obj({"success"}, VNull, VUndefined, VUndefined),
      Obj({"success", "data", "timestamp"}, VBool(TRUE), VObj("payload"), VUndefined),
      Obj({"success", "timestamp"}, VBool(TRUE), VUndefined, VUndefined),
      Obj({"success", "error", "timestamp"}, VBool(FALSE), VUndefined, VStr("Not found")),
      Obj({"success"}, VBool(FALSE), VUndefined, VUndefined) }

\* An Error object: its class and its message.
Err(name, message) == [name |-> name, message |-> message]
NoError == Err("", "")

\* What the transport may throw.
TransportErrors ==
    { Err("NetworkError", "connection refused"), Err("Error", "timeout") }

(***************************************************************************)
(* src/utils/starter-helpers.ts                                            *)
(***************************************************************************)
EndsWithSlash(s) == Len(s) > 0 /\ SubSeq(s, Len(s), Len(s)) = "/"

\* Faulty variant: the Authorization value without its "Bearer " prefix.
createAuthHeadersNoBearer(token) ==
    [h \in {"Content-Type", "Accept", "Authorization"} |->
        IF h = "Authorization" THEN TemplateStr(token) ELSE "application/json"]

createAuthHeaders(token) ==
    [h \in {"Content-Type", "Accept", "Authorization"} |->
        IF h = "Authorization" THEN "Bearer " \o TemplateStr(token)
        ELSE "application/json"]

createHeaders ==
    [h \in {"Content-Type", "Accept"} |-> "application/json"]

\* baseUrl.replace(/\/$/, ''): the pattern is anchored at the end of the
\* input, so the one '/' it can match is the last character.
RECURSIVE StripAllTrailing(_)
StripAllTrailing(s) ==
    IF EndsWithSlash(s) THEN StripAllTrailing(SubSeq(s, 1, Len(s) - 1)) ELSE s

\* Faulty variant: every trailing '/' of the base removed (/\/+$/).
buildUrlStripAll(baseUrl, path) == StripAllTrailing(baseUrl) \o path

buildUrl(baseUrl, path) ==
    LET cleanBase == IF EndsWithSlash(baseUrl)
                     THEN SubSeq(baseUrl, 1, Len(baseUrl) - 1)
                     ELSE baseUrl
    IN  cleanBase \o path

\* a || b on field values: b when a is falsy (undefined, null, false, '',
\* 0, NaN).
Falsy(v) ==
    \/ v.t = "undefined"
    \/ v.nul
    \/ (v.t = "boolean" /\ ~v.b)
    \/ (v.t = "string" /\ v.s = "")
    \/ (v.t = "number" /\ v.s \in {"0", "NaN"})
OrElse(a, b) == IF Falsy(a) THEN b ELSE a

\* `${v}` of a field value.
TemplateVal(v) ==
    IF v.t = "undefined" THEN "undefined"
    ELSE IF v.nul THEN "null"
    ELSE IF v.t = "boolean" THEN (IF v.b THEN "true" ELSE "false")
    ELSE v.s

\* The `response: unknown` of handleApiError: a value, and when it is an
\* object its `data`, and when that is an object its `error` and `message`.
\* A key that is absent reads as undefined.
NoApiData == [t |-> "undefined", nul |-> FALSE, error |-> VUndefined, message |-> VUndefined]
NullApiData == [t |-> "object", nul |-> TRUE, error |-> VUndefined, message |-> VUndefined]
ApiData(error, message) == [t |-> "object", nul |-> FALSE, error |-> error, message |-> message]
ApiPrim(v) == [t |-> v.t, nul |-> v.nul, data |-> NoApiData]
ApiObj(data) == [t |-> "object", nul |-> FALSE, data |-> data]

\* resp?.data : undefined when resp is null or undefined, resp.data otherwise
\* (undefined on a primitive, which has no such property).
OptData(resp) ==
    IF resp.nul \/ resp.t = "undefined" THEN NoApiData ELSE resp.data
\* data?.error, data?.message
OptError(data) ==
    IF data.nul \/ data.t = "undefined" THEN VUndefined ELSE data.error
OptMessage(data) ==
    IF data.nul \/ data.t = "undefined" THEN VUndefined ELSE data.message

\* Faulty variant: `message` looked at before `error`.
handleApiErrorMessageFirst(response, operation) ==
    LET errorMessage == OrElse(OptMessage(OptData(response)),
                               OrElse(OptError(OptData(response)),
                                      VStr("Unknown error")))
    IN  Err("Error", "Failed to " \o operation \o ": " \o TemplateVal(errorMessage))

handleApiError(response, operation) ==
    LET errorMessage == OrElse(OptError(OptData(response)),
                               OrElse(OptMessage(OptData(response)),
                                      VStr("Unknown error")))
    IN  Err("Error", "Failed to " \o operation \o ": " \o TemplateVal(errorMessage))

(***************************************************************************)
(* src/network/StarterClient.ts                                            *)
(***************************************************************************)
\* The settled state of a promise: resolved with a value or rejected with
\* an error.
Resolved(value) == [kind |-> "resolved", value |-> value, err |-> NoError]
Rejected(e) == [kind |-> "rejected", value |-> BUndefined, err |-> e]
Pending == [kind |-> "pending", value |-> BUndefined, err |-> NoError]

\* Faulty variant: `success` tested for truthiness or falsehood, not for its type.
validateResponseTruthySuccess(data, operation) ==
    IF ~data.nul /\ data.t = "object" /\ "success" \in data.has
       /\ ~(data.success.t = "undefined" \/ data.success.nul
            \/ (data.success.t = "boolean" /\ ~data.success.b))
    THEN Resolved(data)
    ELSE Rejected(Err("Error", "Invalid API response for " \o operation
                     \o ": response does not match expected BaseResponse shape"))

\* Faulty variant: an envelope with success === false is thrown.
validateResponseThrowOnFailure(data, operation) ==
    IF ~data.nul /\ data.t = "object" /\ "success" \in data.has
       /\ data.success.t = "boolean" /\ data.success.b
    THEN Resolved(data)
    ELSE Rejected(Err("Error", "Invalid API response for " \o operation
                     \o ": response does not match expected BaseResponse shape"))

\* Faulty variant: the message does not name the operation.
validateResponseNoOperation(data, operation) ==
    IF ~data.nul /\ data.t = "object" /\ "success" \in data.has
       /\ data.success.t = "boolean"
    THEN Resolved(data)
    ELSE Rejected(Err("Error",
             "Invalid API response: response does not match expected BaseResponse shape"))

\* data != null && typeof data === 'object' && 'success' in data &&
\* typeof data.success === 'boolean'  (data != null is false of undefined
\* too, whose typeof is not 'object' either).
validateResponse(data, operation) ==
    IF ~data.nul /\ data.t # "undefined" /\ data.t = "object"
       /\ "success" \in data.has /\ data.success.t = "boolean"
    THEN Resolved(data)
    ELSE Rejected(Err("Error", "Invalid API response for " \o operation
                     \o ": response does not match expected BaseResponse shape"))

\* A request body: createHistory and updateHistory pass `data`, the other
\* operations pass none.
ReqData(has, datetime, value) == [has |-> has, datetime |-> datetime, value |-> value]
NoData == ReqData({}, "", 0)
NoBody == [present |-> FALSE, data |-> NoData]
WithBody(d) == [present |-> TRUE, data |-> d]
CreateRequests ==
    { ReqData({"datetime", "value"}, "2024-01-01T00:00:00Z", 100),
      ReqData({"datetime", "value"}, "2024-06-30T12:00:00Z", 7) }
UpdateRequests == { ReqData({"value"}, "", 200) }

\* What one client method hands to the transport: networkClient.get / post /
\* put / delete (url, [data,] {headers}).
Request(method, url, headers, body) ==
    [method |-> method, url |-> url, headers |-> headers, body |-> body]

VARIABLES
    baseUrl,    \* StarterClient.baseUrl, set by the constructor
    inflight,   \* the bag of calls awaiting the transport
    last,       \* the call settled last: what the transport answered, how the
                \* call settled and the invalidateQueries calls that followed
    props,      \* the arguments of useHistories' current render
    pureIn,     \* the arguments of the helper applied last
    pureOut,    \* and what it returned
    helper,     \* QUERY_KEYS / handleApiError: the arguments drawn and the result
    opts,       \* options?.enabled of each hook's current render
    query,      \* the caching engine's query of each hook: data, error, fetch
    muts,       \* the three mutations of useHistories: pending, error
    memo        \* each hook's useMemo cell: its dependencies and its client

\* The state of the hooks' reads, mutations and clients, and of the helpers
\* other than the header and URL builders.
rest == <<helper, opts, query, muts, memo>>

vars == <<baseUrl, inflight, last, props, pureIn, pureOut, rest>>

\* One method's transport call and the name it tags the validator with.
Method(operation, method, url, headers, body) ==
    [operation |-> operation, req |-> Request(method, url, headers, body)]

\* Faulty variant: getUser with the path of getHistories.
getUserWrongPath(userId, token) ==
    Method("getUser", "GET",
           buildUrl(baseUrl, "/api/v1/users/" \o TemplateStr(userId) \o "/histories"),
           createAuthHeaders(token), NoBody)

\* Faulty variant: the token kept on the instance by the call before, so
\* that a call made while another is in flight sends the other's token.
getUserSharedToken(userId, token) ==
    Method("getUser", "GET",
           buildUrl(baseUrl, "/api/v1/users/" \o TemplateStr(userId)),
           createAuthHeaders(IF inflight = EmptyBag THEN token
                             ELSE (CHOOSE c \in BagToSet(inflight) : TRUE).token),
           NoBody)

getUser(userId, token) ==
    Method("getUser", "GET",
           buildUrl(baseUrl, "/api/v1/users/" \o TemplateStr(userId)),
           createAuthHeaders(token), NoBody)

getHistories(userId, token) ==
    Method("getHistories", "GET",
           buildUrl(baseUrl, "/api/v1/users/" \o TemplateStr(userId) \o "/histories"),
           createAuthHeaders(token), NoBody)

createHistory(userId, data, token) ==
    Method("createHistory", "POST",
           buildUrl(baseUrl, "/api/v1/users/" \o TemplateStr(userId) \o "/histories"),
           createAuthHeaders(token), WithBody(data))

updateHistory(userId, historyId, data, token) ==
    Method("updateHistory", "PUT",
           buildUrl(baseUrl, "/api/v1/users/" \o TemplateStr(userId)
                             \o "/histories/" \o historyId),
           createAuthHeaders(token), WithBody(data))

deleteHistory(userId, historyId, token) ==
    Method("deleteHistory", "DELETE",
           buildUrl(baseUrl, "/api/v1/users/" \o TemplateStr(userId)
                             \o "/histories/" \o historyId),
           createAuthHeaders(token), NoBody)

\* Faulty variant: the public operation sent with the authenticated headers.
getHistoriesTotalWithAuth ==
    Method("getHistoriesTotal", "GET",
           buildUrl(baseUrl, "/api/v1/histories/total"),
           createAuthHeaders(NullStr), NoBody)

getHistoriesTotal ==
    Method("getHistoriesTotal", "GET",
           buildUrl(baseUrl, "/api/v1/histories/total"),
           createHeaders, NoBody)

\* `await this.networkClient.<method>(...)` when the transport throws: the
\* async method rejects with what was thrown.
\* Faulty variant: the transport error caught and wrapped.
AwaitThrownWrapped(e) == Rejected(Err("Error", "Request failed: " \o e.message))

AwaitThrown(e) == Rejected(e)

\* `return validateResponse(response.data, '<operation>')`.
AwaitReturned(m, data) == validateResponse(data, m.operation)

\* A call in flight: the method called and its arguments (an argument the
\* method does not take is NullStr / "" / NoData), who called it, the
\* request its transport call carried and how many transport calls it made.
Call(op, via, userId, historyId, data, token, m) ==
    [op |-> op, via |-> via, userId |-> userId, historyId |-> historyId,
     data |-> data, token |-> token, operation |-> m.operation,
     req |-> m.req, sent |-> 1]

NoCall ==
    [op |-> "", via |-> "", userId |-> NullStr, historyId |-> "",
     data |-> NoData, token |-> NullStr, operation |-> "",
     req |-> Request("", "", createHeaders, NoBody), sent |-> 0]

\* What the transport answered: a response body or a thrown error.
Responded(body) == [kind |-> "body", body |-> body, err |-> NoError]
Threw(e) == [kind |-> "error", body |-> BUndefined, err |-> e]
NoResponse == [kind |-> "", body |-> BUndefined, err |-> NoError]

(***************************************************************************)
(* src/types.ts (QUERY_KEYS) and src/hooks/useHistories.ts, the writes.    *)
(***************************************************************************)
\* Faulty variant: the user id left out of the history-list key.
QueryKeyHistoriesNoUser(userId) == <<"starter", "histories">>

QueryKeyHistories(userId) == <<"starter", "histories", userId>>
QueryKeyHistoriesTotal == <<"starter", "histories", "total">>
QueryKeyUser(userId) == <<"starter", "user", userId>>

\* The invalidateQueries calls of `invalidate`, in the order it makes them.
\* Faulty variant: the history-list key is never invalidated.
invalidateTotalOnly(userId) == <<QueryKeyHistoriesTotal>>

invalidate(userId) ==
    (IF Truthy(userId) THEN <<QueryKeyHistories(userId.s)>> ELSE <<>>)
    \o <<QueryKeyHistoriesTotal>>

\* onSuccess: response => { if (response.success) invalidate(); }
\* `response` is what the mutation function resolved with, a validated
\* envelope, and `userId` the user id of the render that issued the write.
\* Faulty variant: invalidation without looking at response.success.
onSuccessAlways(response, userId) == invalidate(userId)

onSuccess(response, userId) ==
    IF response.success.t = "boolean" /\ response.success.b
    THEN invalidate(userId)
    ELSE <<>>

(***************************************************************************)
(* src/hooks/useHistories.ts and src/hooks/useHistoriesTotal.ts, the reads. *)
(***************************************************************************)
\* a ?? b : b when a is null or undefined.
Nullish(v) == v.t = "undefined" \/ v.nul
NullishOr(a, b) == IF Nullish(a) THEN b ELSE a

\* const enabled = (options?.enabled ?? true) && !!userId && !!token
\* `enabledOpt` is options?.enabled: undefined when options or the key is
\* absent.
useHistoriesEnabled(enabledOpt, userId, token) ==
    /\ ~Falsy(NullishOr(enabledOpt, VBool(TRUE)))
    /\ Truthy(userId)
    /\ Truthy(token)

\* Faulty variant: the override ignored, the read always enabled.
useHistoriesTotalEnabledAlways(enabledOpt) == TRUE

\* const enabled = options?.enabled ?? true
useHistoriesTotalEnabled(enabledOpt) ==
    ~Falsy(NullishOr(enabledOpt, VBool(TRUE)))

\* What a query function settles with: the data it returned or the error
\* it threw.
Returned(data) == [kind |-> "resolved", data |-> data, err |-> NoError]
Thrown(e) == [kind |-> "rejected", data |-> VUndefined, err |-> e]

\* Faulty variant: only `success` looked at, the data returned as it is.
queryFnSuccessOnly(outcome, fallback) ==
    IF outcome.kind = "rejected" THEN Thrown(outcome.err)
    ELSE LET response == outcome.value
         IN  IF Falsy(response.success)
             THEN Thrown(Err("Error",
                             TemplateVal(OrElse(response.error, VStr(fallback)))))
             ELSE Returned(response.data)

\* Faulty variant: response.data returned without looking at the envelope.
queryFnUnchecked(outcome, fallback) ==
    IF outcome.kind = "rejected" THEN Thrown(outcome.err)
    ELSE Returned(outcome.value.data)

\* const response = await client.<read>(...);
\* if (!response.success || !response.data)
\*     throw new Error(response.error || fallback);
\* return response.data;
\* `outcome` is how the client's promise settled; awaiting a rejected
\* promise throws its error out of the query function.
queryFn(outcome, fallback) ==
    IF outcome.kind = "rejected" THEN Thrown(outcome.err)
    ELSE LET response == outcome.value
         IN  IF Falsy(response.success) \/ Falsy(response.data)
             THEN Thrown(Err("Error",
                             TemplateVal(OrElse(response.error, VStr(fallback)))))
             ELSE Returned(response.data)

queryFnHistories(outcome) == queryFn(outcome, "Failed to fetch histories")
queryFnTotal(outcome) == queryFn(outcome, "Failed to fetch total")

\* The caching engine's record of one query, as useQuery hands it to the
\* hook: data (undefined until a fetch succeeded), error (null unless the
\* last fetch failed).  A fetch that succeeded stores its data and clears
\* the error; one that failed stores the error and leaves the data.
QuerySettled(q, result) ==
    IF result.kind = "resolved"
    THEN [q EXCEPT !.data = result.data, !.error = NoError, !.fetching = FALSE]
    ELSE [q EXCEPT !.error = result.err, !.fetching = FALSE]

\* queryError instanceof Error ? queryError.message : null
ErrorMessage(e) == IF e = NoError THEN NullStr ELSE Str(e.message)

\* The payload of the total endpoint, { total: n }, and its `total`.
PayloadTotals == {"42", "0"}
TotalPayload(n) == VObj("{total:" \o n \o "}")
FieldTotal(data) ==
    IF \E n \in PayloadTotals : data = TotalPayload(n)
    THEN VNum(CHOOSE n \in PayloadTotals : data = TotalPayload(n))
    ELSE VUndefined

\* const EMPTY_HISTORIES: History[] = [] : one array of the module, not the
\* array of any response.
EMPTY_HISTORIES == VObj("EMPTY_HISTORIES")

\* histories: data ?? EMPTY_HISTORIES
useHistoriesHistories(data) == NullishOr(data, EMPTY_HISTORIES)

\* total: data?.total ?? 0
useHistoriesTotalTotal(data) ==
    NullishOr(IF Nullish(data) THEN VUndefined ELSE FieldTotal(data), VNum("0"))

(***************************************************************************)
(* src/hooks/useHistories.ts: the three mutations and the `error` field.   *)
(***************************************************************************)
MutationKinds == {"createHistory", "updateHistory", "deleteHistory"}

\* What useMutation hands the hook of one mutation: isPending and error
\* (null unless the mutation function of its last call rejected).
NoMutation == [pending |-> FALSE, error |-> NoError]

\* For the properties: the `error` field and the mutation's own error when
\* a write was called, kept until something else touches an error.
NoSnap == [state |-> "none", kind |-> "", before |-> NullStr, own |-> NoError]

\* const mutationError =
\*     createMutation.error ?? updateMutation.error ?? deleteMutation.error
mutationError(m) ==
    IF m.createHistory.error # NoError THEN m.createHistory.error
    ELSE IF m.updateHistory.error # NoError THEN m.updateHistory.error
    ELSE m.deleteHistory.error

\* const error = queryErrorMessage ?? mutationErrorMessage
useHistoriesError(q, m) ==
    IF ErrorMessage(q.error) # NullStr
    THEN ErrorMessage(q.error)
    ELSE ErrorMessage(mutationError(m))

\* The kinds with a recorded error, the one that failed last first.
Without(seq, k) == SelectSeq(seq, LAMBDA x : x # k)

\* mutateAsync: the mutation is pending and its earlier error is gone.
MutationStarted(q, m, k) ==
    [m EXCEPT ![k] = [pending |-> TRUE, error |-> NoError],
              !.recent = Without(m.recent, k),
              !.snap = [state |-> "open", kind |-> k,
                        before |-> useHistoriesError(q, m), own |-> m[k].error]]

\* Faulty variant: a resolved business failure recorded as an error.
MutationSettledFailureRecorded(m, k, outcome) ==
    IF outcome.kind = "resolved" /\ outcome.value.success = VBool(TRUE)
    THEN [m EXCEPT ![k] = NoMutation,
                   !.snap = IF m.snap.state = "open" /\ m.snap.kind = k
                            THEN [m.snap EXCEPT !.state = "closed"] ELSE NoSnap]
    ELSE [m EXCEPT ![k] = [pending |-> FALSE,
                           error |-> IF outcome.kind = "resolved"
                                     THEN Err("Error", TemplateVal(outcome.value.error))
                                     ELSE outcome.err],
                   !.recent = <<k>> \o Without(m.recent, k),
                   !.snap = IF m.snap.state = "open" /\ m.snap.kind = k
                            THEN [m.snap EXCEPT !.state = "closed"] ELSE NoSnap]

\* The mutation function settled: resolved, whatever the envelope says,
\* leaves no error; rejected, its error is the mutation's error.
MutationSettled(m, k, outcome) ==
    IF outcome.kind = "resolved"
    THEN [m EXCEPT ![k] = NoMutation,
                   !.snap = IF m.snap.state = "open" /\ m.snap.kind = k
                            THEN [m.snap EXCEPT !.state = "closed"] ELSE NoSnap]
    ELSE [m EXCEPT ![k] = [pending |-> FALSE, error |-> outcome.err],
                   !.recent = <<k>> \o Without(m.recent, k),
                   !.snap = IF m.snap.state = "open" /\ m.snap.kind = k
                            THEN [m.snap EXCEPT !.state = "closed"] ELSE NoSnap]

\* clearError: createMutation.reset(); updateMutation.reset();
\* deleteMutation.reset();
clearError(m) ==
    [m EXCEPT !.createHistory = NoMutation, !.updateHistory = NoMutation,
              !.deleteHistory = NoMutation, !.recent = <<>>, !.snap = NoSnap]

\* A read started or settled: the snapshot of a write no longer compares.
ReadTouched(m) == [m EXCEPT !.snap = NoSnap]

(***************************************************************************)
(* The memoized client of both hooks:                                      *)
(*   useMemo(() => new StarterClient({ baseUrl, networkClient }),          *)
(*           [baseUrl, networkClient])                                     *)
(***************************************************************************)
\* new StarterClient({ baseUrl, networkClient }): an object of its own
\* identity `id` holding the two values it was constructed from.  A
\* transport is known by its reference.
StarterClient(id, url, networkClient) ==
    [id |-> id, baseUrl |-> url, networkClient |-> networkClient]
NoClient == StarterClient(0, "", "")

\* The useMemo cell of one hook instance: the dependencies of the render
\* that computed the value, and the value.
NoCell == [mounted |-> FALSE, deps |-> <<"", "">>, client |-> NoClient]

\* Faulty variant: the transport left out of the dependency list.
depsChangedBaseUrlOnly(prev, next) == prev[1] # next[1]

\* The dependency comparison of useMemo: some dependency differs (a string
\* by its value, an object by its reference).
depsChanged(prev, next) == \E i \in 1..2 : prev[i] # next[i]

\* One render's useMemo: the factory runs on the first render and when a
\* dependency changed, and the cell is kept otherwise.  `id` is the
\* identity the object gets if the factory runs.
useMemoClient(cell, url, networkClient, id) ==
    IF ~cell.mounted \/ depsChanged(cell.deps, <<url, networkClient>>)
    THEN [mounted |-> TRUE, deps |-> <<url, networkClient>>,
          client |-> StarterClient(id, url, networkClient)]
    ELSE cell

(***************************************************************************)
(* Inputs.                                                                 *)
(***************************************************************************)
BaseUrls == {"https://api.example.com", "https://api.example.com/"}
UserIds == {"user-123", "user-b"}
HistoryIds == {"hist-456"}
Tokens == {"token-abc", "tok2"}
\* What a render of useHistories may be given.
HookUserIds == {NullStr, Str(""), Str("user-123"), Str("user-b")}
HookTokens == {Str("token-abc")}
HookCreateRequests == {ReqData({"datetime", "value"}, "2024-01-01T00:00:00Z", 100)}

\* Strings over a small alphabet, for the pure helpers.
Alphabet == {"a", "/", ":"}
RECURSIVE StringsUpTo(_)
StringsUpTo(n) ==
    IF n = 0 THEN {""}
    ELSE LET shorter == StringsUpTo(n - 1)
         IN  shorter \cup {s \o a : s \in shorter, a \in Alphabet}
Strings == StringsUpTo(MaxLen)

\* User ids given to the cache-key factory: any string.
KeyUserIds == Strings \cup {"user-123", "u1", "u2", "uid", "total", "histories", "user"}

\* What handleApiError is given: the cases of its tests, and their
\* neighbours with an empty string in a field.
ApiFieldValues(text) == {VUndefined, VStr(""), VStr(text)}
ApiResponses ==
    { ApiPrim(VNull), ApiPrim(VUndefined), ApiPrim(VStr("oops")),
      ApiObj(NoApiData), ApiObj(NullApiData) }
    \cup { ApiObj(ApiData(e, m)) :
              e \in ApiFieldValues("User not found"),
              m \in ApiFieldValues("Something went wrong") }
ApiOperations == {"fetch", "fetch histories", "test"}

\* What a render of a read hook may be given.
ReadUserIds == {NullStr, Str(""), Str("user-123")}
ReadTokens == {NullStr, Str(""), Str("token-abc")}
EnabledOptions == {VUndefined, VBool(TRUE), VBool(FALSE)}

\* What the transport answers a read with: envelopes with and without a
\* payload, business failures with, without and with an empty `error`, one
\* that carries a payload all the same, and a body that is no envelope.
\* A `data` that is there and falsy.
FalsyPayloads == {VNull, VBool(FALSE), VStr(""), VNum("0")}
ReadPayloads(hook) ==
    IF hook = "useHistoriesTotal" THEN {TotalPayload(n) : n \in PayloadTotals}
    ELSE {VObj("[]"), VObj("[history]")}
ReadBodies(hook) ==
    { Obj({"success", "data", "timestamp"}, VBool(TRUE), d, VUndefined) :
        d \in ReadPayloads(hook) }
    \cup
    { Obj({"success", "data", "timestamp"}, VBool(TRUE), d, VUndefined) :
        d \in FalsyPayloads }
    \cup
    { Obj({"success", "timestamp"}, VBool(TRUE), VUndefined, VUndefined),
      Obj({"success", "error", "timestamp"}, VBool(TRUE), VUndefined, VStr("Quota exceeded")),
      Obj({"success", "error", "timestamp"}, VBool(FALSE), VUndefined, VStr("Not found")),
      Obj({"success", "error", "timestamp"}, VBool(FALSE), VUndefined, VStr("")),
      Obj({"success", "timestamp"}, VBool(FALSE), VUndefined, VUndefined),
      Obj({"success", "data", "error", "timestamp"}, VBool(FALSE),
          CHOOSE d \in ReadPayloads(hook) : TRUE, VStr("Denied")),
      Prim(VNull) }

\* What the transport answers a write of the hook and a read beside it with.
WriteBodies ==
    { Obj({"success", "data", "timestamp"}, VBool(TRUE), VObj("payload"), VUndefined),
      Obj({"success", "error", "timestamp"}, VBool(FALSE), VUndefined, VStr("Not found")),
      Prim(VNull) }
ErrReadBodies ==
    { Obj({"success", "data", "timestamp"}, VBool(TRUE), VObj("[history]"), VUndefined),
      Obj({"success", "error", "timestamp"}, VBool(FALSE), VUndefined, VStr("Denied")) }

\* What a render of useHistories may be given when the writes are made
\* with or without a user id and a token.
GateUserIds == {NullStr, Str("user-123")}
GateTokens == {NullStr, Str("token-abc")}

\* The callers that share one client: each with its user id and its token.
Callers ==
    { [userId |-> Str("user-123"), token |-> Str("token-abc")],
      [userId |-> Str("user-b"), token |-> Str("tok2")] }

\* The transports a render may be given, by reference.
NetworkClients == {"networkClient1", "networkClient2"}
MemoHooks == {"useHistories", "useHistoriesTotal"}

NoPure == [fn |-> "", base |-> "", path |-> "", token |-> ""]
NoPureOut == [done |-> FALSE, url |-> "", headers |-> <<>>]
NoLast ==
    [op |-> "", via |-> "", userId |-> NullStr, sent |-> 0, resp |-> NoResponse,
     outcome |-> Pending, ran |-> FALSE, cbUserId |-> NullStr, issued |-> <<>>]

(***************************************************************************)
(* The hooks and the remaining helpers before anything happened.           *)
(***************************************************************************)
NoKeys == [histories1 |-> <<>>, histories2 |-> <<>>, again |-> <<>>,
           total |-> <<>>, totalAgain |-> <<>>, user1 |-> <<>>]
NoHelper ==
    [fn |-> "", done |-> FALSE, u1 |-> "", u2 |-> "",
     response |-> ApiPrim(VUndefined), operation |-> "",
     keys |-> NoKeys, returned |-> NoError]
NoOpts == VUndefined
\* No hook mounted.  `hook` names the hook whose query it is, `enabled` is
\* the flag its last render gave useQuery, `fetching` tells a query
\* function in flight and `startedEnabled` what `enabled` was when that
\* fetch began.
NoQuery ==
    [hook |-> "", enabled |-> FALSE, data |-> VUndefined, error |-> NoError,
     fetching |-> FALSE, startedEnabled |-> FALSE]
NoMuts ==
    [createHistory |-> NoMutation, updateHistory |-> NoMutation,
     deleteHistory |-> NoMutation, recent |-> <<>>, snap |-> NoSnap]
\* No hook rendered yet: per hook its cell and the arguments of its last
\* render, and the number of clients constructed so far.
NoMemo ==
    [useHistories |-> [cell |-> NoCell, args |-> <<"", "">>],
     useHistoriesTotal |-> [cell |-> NoCell, args |-> <<"", "">>],
     created |-> 0]

RestIdle ==
    /\ helper = NoHelper
    /\ opts = NoOpts
    /\ query = NoQuery
    /\ muts = NoMuts
    /\ memo = NoMemo

(***************************************************************************)
(* The state after construction.                                           *)
(***************************************************************************)
\* new StarterClient({ baseUrl, networkClient }): nothing in flight.
Init ==
    /\ baseUrl \in BaseUrls
    /\ inflight = EmptyBag
    /\ last = NoLast
    /\ props = [userId |-> Str("user-123"), token |-> Str("token-abc")]
    /\ pureIn = NoPure
    /\ pureOut = NoPureOut
    /\ RestIdle

\* The first render of useHistories, with any arguments.
InitHook ==
    /\ baseUrl = "https://api.example.com"
    /\ inflight = EmptyBag
    /\ last = NoLast
    /\ props \in [userId : HookUserIds, token : HookTokens]
    /\ pureIn = NoPure
    /\ pureOut = NoPureOut
    /\ RestIdle

\* The arguments a helper is about to be applied to.
PureInputs ==
    {[fn |-> "buildUrl", base |-> b, path |-> p, token |-> ""] :
        b \in Strings, p \in Strings}
    \cup {[fn |-> "createAuthHeaders", base |-> "", path |-> "", token |-> t] :
        t \in Strings}
    \cup {[fn |-> "createHeaders", base |-> "", path |-> "", token |-> ""]}

InitPure ==
    /\ baseUrl = "https://api.example.com"
    /\ inflight = EmptyBag
    /\ last = NoLast
    /\ props = [userId |-> NullStr, token |-> NullStr]
    /\ pureIn \in PureInputs
    /\ pureOut = NoPureOut
    /\ RestIdle

\* QUERY_KEYS and handleApiError on their own: the arguments are drawn here
\* and the functions applied by the actions.
HelperInputs ==
    { [NoHelper EXCEPT !.fn = "QUERY_KEYS", !.u1 = a, !.u2 = b] :
        a \in KeyUserIds, b \in KeyUserIds }
    \cup { [NoHelper EXCEPT !.fn = "handleApiError", !.response = r, !.operation = o] :
              r \in ApiResponses, o \in ApiOperations }

InitHelpers ==
    /\ baseUrl = ""
    /\ inflight = EmptyBag
    /\ last = NoLast
    /\ props = [userId |-> NullStr, token |-> NullStr]
    /\ pureIn = NoPure
    /\ pureOut = NoPureOut
    /\ helper \in HelperInputs
    /\ opts = NoOpts
    /\ query = NoQuery
    /\ muts = NoMuts
    /\ memo = NoMemo

\* Before the first render of either hook.
InitMemo ==
    /\ baseUrl = ""
    /\ inflight = EmptyBag
    /\ last = NoLast
    /\ props = [userId |-> NullStr, token |-> NullStr]
    /\ pureIn = NoPure
    /\ pureOut = NoPureOut
    /\ RestIdle

\* A component that mounts one of the two read hooks: the first render.
HookEnabled(hook, enabledOpt, userId, token) ==
    IF hook = "useHistories" THEN useHistoriesEnabled(enabledOpt, userId, token)
    ELSE useHistoriesTotalEnabled(enabledOpt)

InitRead ==
    /\ baseUrl = "https://api.example.com"
    /\ inflight = EmptyBag
    /\ last = NoLast
    /\ pureIn = NoPure
    /\ pureOut = NoPureOut
    /\ helper = NoHelper
    /\ muts = NoMuts
    /\ memo = NoMemo
    /\ opts \in EnabledOptions
    /\ \/ /\ props \in [userId : ReadUserIds, token : ReadTokens]
          /\ query = [NoQuery EXCEPT
                        !.hook = "useHistories",
                        !.enabled = HookEnabled("useHistories", opts,
                                                props.userId, props.token)]
       \/ /\ props = [userId |-> NullStr, token |-> NullStr]
          /\ query = [NoQuery EXCEPT
                        !.hook = "useHistoriesTotal",
                        !.enabled = HookEnabled("useHistoriesTotal", opts,
                                                props.userId, props.token)]

\* The first render of useHistories with or without a user id, a token and
\* an `enabled` option.
InitGate ==
    /\ baseUrl = "https://api.example.com"
    /\ inflight = EmptyBag
    /\ last = NoLast
    /\ pureIn = NoPure
    /\ pureOut = NoPureOut
    /\ helper = NoHelper
    /\ muts = NoMuts
    /\ memo = NoMemo
    /\ opts \in EnabledOptions
    /\ props \in [userId : GateUserIds, token : GateTokens]
    /\ query = [NoQuery EXCEPT
                  !.hook = "useHistories",
                  !.enabled = HookEnabled("useHistories", opts,
                                          props.userId, props.token)]

\* useHistories mounted with a user id and a token, its read enabled.
InitErr ==
    /\ baseUrl = "https://api.example.com"
    /\ inflight = EmptyBag
    /\ last = NoLast
    /\ pureIn = NoPure
    /\ pureOut = NoPureOut
    /\ helper = NoHelper
    /\ muts = NoMuts
    /\ memo = NoMemo
    /\ opts = VUndefined
    /\ props = [userId |-> Str("user-123"), token |-> Str("token-abc")]
    /\ query = [NoQuery EXCEPT
                  !.hook = "useHistories",
                  !.enabled = HookEnabled("useHistories", opts,
                                          props.userId, props.token)]

(***************************************************************************)
(* Calls on the client.                                                    *)
(***************************************************************************)
\* The method runs up to its await: the transport call is made.
Start(c) ==
    /\ BagCardinality(inflight) < MaxInFlight
    /\ inflight' = inflight (+) SetToBag({c})
    /\ UNCHANGED <<rest, baseUrl, last, props, pureIn, pureOut>>

ClientGetUser ==
    \E u \in UserIds, t \in Tokens :
        Start(Call("getUser", "client", Str(u), "", NoData, Str(t),
                   getUser(Str(u), Str(t))))

ClientGetHistories ==
    \E u \in UserIds, t \in Tokens :
        Start(Call("getHistories", "client", Str(u), "", NoData, Str(t),
                   getHistories(Str(u), Str(t))))

ClientCreateHistory ==
    \E u \in UserIds, d \in CreateRequests, t \in Tokens :
        Start(Call("createHistory", "client", Str(u), "", d, Str(t),
                   createHistory(Str(u), d, Str(t))))

ClientUpdateHistory ==
    \E u \in UserIds, h \in HistoryIds, d \in UpdateRequests, t \in Tokens :
        Start(Call("updateHistory", "client", Str(u), h, d, Str(t),
                   updateHistory(Str(u), h, d, Str(t))))

ClientDeleteHistory ==
    \E u \in UserIds, h \in HistoryIds, t \in Tokens :
        Start(Call("deleteHistory", "client", Str(u), h, NoData, Str(t),
                   deleteHistory(Str(u), h, Str(t))))

ClientGetHistoriesTotal ==
    Start(Call("getHistoriesTotal", "client", NullStr, "", NoData, NullStr,
               getHistoriesTotal))

(***************************************************************************)
(* The transport settles a call; the method resumes after its await, and   *)
(* for a write of the hook the mutation's onSuccess runs when the method   *)
(* resolved.                                                               *)
(***************************************************************************)
\* onSuccess is the callback of a render of the hook, and `invalidate` closes
\* over that render's userId.  Which render's callback the mutation engine
\* runs when the hook was rendered again while the write was in flight is
\* the engine's choice: the render that issued the write, or the current one.
CallbackUserIds(c) == {c.userId, props.userId}

Settle(c, resp, outcome) ==
    /\ inflight' = inflight (-) SetToBag({c})
    /\ IF c.via = "hook" /\ outcome.kind = "resolved"
       THEN \E u \in CallbackUserIds(c) :
                last' = [op |-> c.op, via |-> c.via, userId |-> c.userId,
                         sent |-> c.sent, resp |-> resp, outcome |-> outcome,
                         ran |-> TRUE, cbUserId |-> u,
                         issued |-> onSuccess(outcome.value, u)]
       ELSE last' = [op |-> c.op, via |-> c.via, userId |-> c.userId,
                     sent |-> c.sent, resp |-> resp, outcome |-> outcome,
                     ran |-> FALSE, cbUserId |-> NullStr, issued |-> <<>>]
    /\ UNCHANGED <<rest, baseUrl, props, pureIn, pureOut>>

TransportRespond ==
    \E c \in BagToSet(inflight), body \in Bodies :
        Settle(c, Responded(body), AwaitReturned(c, body))

TransportThrow ==
    \E c \in BagToSet(inflight), e \in TransportErrors :
        Settle(c, Threw(e), AwaitThrown(e))

(***************************************************************************)
(* useHistories: a render, and the three writes it returns.                *)
(***************************************************************************)
Render ==
    \E u \in HookUserIds, t \in HookTokens :
        /\ props' = [userId |-> u, token |-> t]
        /\ props' # props
        /\ UNCHANGED <<rest, baseUrl, inflight, last, pureIn, pureOut>>

\* Faulty variant: the write made only while the read is enabled.
HookCreateHistoryGated ==
    /\ query.enabled
    /\ \E d \in HookCreateRequests :
          Start(Call("createHistory", "hook", props.userId, "", d, props.token,
                     createHistory(props.userId, d, props.token)))

\* mutationFn: client.createHistory(userId!, data, token!)
HookCreateHistory ==
    \E d \in HookCreateRequests :
        Start(Call("createHistory", "hook", props.userId, "", d, props.token,
                   createHistory(props.userId, d, props.token)))

HookUpdateHistory ==
    \E h \in HistoryIds, d \in UpdateRequests :
        Start(Call("updateHistory", "hook", props.userId, h, d, props.token,
                   updateHistory(props.userId, h, d, props.token)))

HookDeleteHistory ==
    \E h \in HistoryIds :
        Start(Call("deleteHistory", "hook", props.userId, h, NoData, props.token,
                   deleteHistory(props.userId, h, props.token)))

(***************************************************************************)
(* The pure helpers applied to drawn arguments.                            *)
(***************************************************************************)
ApplyBuildUrl ==
    /\ pureIn.fn = "buildUrl" /\ ~pureOut.done
    /\ pureOut' = [done |-> TRUE, url |-> buildUrl(pureIn.base, pureIn.path),
                   headers |-> <<>>]
    /\ UNCHANGED <<rest, baseUrl, inflight, last, props, pureIn>>

ApplyCreateAuthHeaders ==
    /\ pureIn.fn = "createAuthHeaders" /\ ~pureOut.done
    /\ pureOut' = [done |-> TRUE, url |-> "",
                   headers |-> createAuthHeaders(Str(pureIn.token))]
    /\ UNCHANGED <<rest, baseUrl, inflight, last, props, pureIn>>

ApplyCreateHeaders ==
    /\ pureIn.fn = "createHeaders" /\ ~pureOut.done
    /\ pureOut' = [done |-> TRUE, url |-> "", headers |-> createHeaders]
    /\ UNCHANGED <<rest, baseUrl, inflight, last, props, pureIn>>

\* The three factories of QUERY_KEYS called on the drawn user ids, the
\* history-list and total factories twice.
ApplyQueryKeys ==
    /\ helper.fn = "QUERY_KEYS" /\ ~helper.done
    /\ helper' = [helper EXCEPT
                    !.done = TRUE,
                    !.keys = [histories1 |-> QueryKeyHistories(helper.u1),
                              histories2 |-> QueryKeyHistories(helper.u2),
                              again |-> QueryKeyHistories(helper.u1),
                              total |-> QueryKeyHistoriesTotal,
                              totalAgain |-> QueryKeyHistoriesTotal,
                              user1 |-> QueryKeyUser(helper.u1)]]
    /\ UNCHANGED <<baseUrl, inflight, last, props, pureIn, pureOut, opts, query, muts, memo>>

ApplyHandleApiError ==
    /\ helper.fn = "handleApiError" /\ ~helper.done
    /\ helper' = [helper EXCEPT
                    !.done = TRUE,
                    !.returned = handleApiError(helper.response, helper.operation)]
    /\ UNCHANGED <<baseUrl, inflight, last, props, pureIn, pureOut, opts, query, muts, memo>>

(***************************************************************************)
(* The read of a hook: renders, fetches of the caching engine, and the     *)
(* transport settling them.                                                *)
(***************************************************************************)
\* A later render with another token or another `enabled` option.  (The
\* user id selects the cache entry and stays the one of the first render.)
RenderRead ==
    \E t \in (IF query.hook = "useHistories" THEN ReadTokens ELSE {props.token}),
       o \in EnabledOptions :
        /\ query.hook # ""
        /\ props' = [props EXCEPT !.token = t]
        /\ opts' = o
        /\ <<props', opts'>> # <<props, opts>>
        /\ query' = [query EXCEPT
                       !.enabled = HookEnabled(query.hook, o, props.userId, t)]
        /\ UNCHANGED <<baseUrl, inflight, last, pureIn, pureOut, helper, muts, memo>>

\* The query function runs up to the client's await, with the arguments of
\* the current render: client.getHistories(userId!, token!) or
\* client.getHistoriesTotal().
StartRead(via) ==
    /\ query.hook # "" /\ ~query.fetching
    /\ BagCardinality(inflight) < MaxInFlight
    /\ inflight' = inflight (+) SetToBag({
           IF query.hook = "useHistories"
           THEN Call("getHistories", via, props.userId, "", NoData, props.token,
                     getHistories(props.userId, props.token))
           ELSE Call("getHistoriesTotal", via, NullStr, "", NoData, NullStr,
                     getHistoriesTotal)})
    /\ query' = [query EXCEPT !.fetching = TRUE, !.startedEnabled = query.enabled]
    /\ muts' = ReadTouched(muts)
    /\ UNCHANGED <<baseUrl, last, props, pureIn, pureOut, helper, opts, memo>>

\* The engine fetches on its own (mount, stale data, invalidation) only a
\* query that is enabled.
QueryFetch ==
    /\ query.enabled
    /\ StartRead("query")

\* `update` / `refetch`: the engine's refetch function handed to the caller
\* as it is.  It runs the query function whether or not the query is
\* enabled.
Refetch ==
    /\ query.hook \in {"useHistories", "useHistoriesTotal"}
    /\ StartRead("refetch")

SettleRead(c, resp, outcome) ==
    /\ c.via \in {"query", "refetch"}
    /\ inflight' = inflight (-) SetToBag({c})
    /\ query' = QuerySettled(query,
                     IF query.hook = "useHistories" THEN queryFnHistories(outcome)
                     ELSE queryFnTotal(outcome))
    /\ last' = [op |-> c.op, via |-> c.via, userId |-> c.userId,
                sent |-> c.sent, resp |-> resp, outcome |-> outcome,
                ran |-> FALSE, cbUserId |-> NullStr, issued |-> <<>>]
    /\ muts' = ReadTouched(muts)
    /\ UNCHANGED <<baseUrl, props, pureIn, pureOut, helper, opts, memo>>

ReadRespond ==
    \E c \in BagToSet(inflight), body \in ReadBodies(query.hook) :
        SettleRead(c, Responded(body), AwaitReturned(c, body))

ReadThrow ==
    \E c \in BagToSet(inflight), e \in TransportErrors :
        SettleRead(c, Threw(e), AwaitThrown(e))

(***************************************************************************)
(* useHistories: the writes with the state of their mutations, a read      *)
(* beside them, and clearError.                                            *)
(***************************************************************************)
\* mutateAsync of one mutation, up to the client's await.  (A mutation is
\* called again only after its last call settled.)
Mutate(c) ==
    /\ ~muts[c.op].pending
    /\ BagCardinality(inflight) < MaxInFlight
    /\ inflight' = inflight (+) SetToBag({c})
    /\ muts' = MutationStarted(query, muts, c.op)
    /\ UNCHANGED <<baseUrl, last, props, pureIn, pureOut, helper, opts, query, memo>>

MutateCreate ==
    \E d \in HookCreateRequests :
        Mutate(Call("createHistory", "hook", props.userId, "", d, props.token,
                    createHistory(props.userId, d, props.token)))

MutateUpdate ==
    \E h \in HistoryIds, d \in UpdateRequests :
        Mutate(Call("updateHistory", "hook", props.userId, h, d, props.token,
                    updateHistory(props.userId, h, d, props.token)))

MutateDelete ==
    \E h \in HistoryIds :
        Mutate(Call("deleteHistory", "hook", props.userId, h, NoData, props.token,
                    deleteHistory(props.userId, h, props.token)))

\* The mutation function settles; onSuccess runs when it resolved.
SettleMutation(c, resp, outcome) ==
    /\ c.via = "hook"
    /\ inflight' = inflight (-) SetToBag({c})
    /\ muts' = MutationSettled(muts, c.op, outcome)
    /\ IF outcome.kind = "resolved"
       THEN \E u \in CallbackUserIds(c) :
                last' = [op |-> c.op, via |-> c.via, userId |-> c.userId,
                         sent |-> c.sent, resp |-> resp, outcome |-> outcome,
                         ran |-> TRUE, cbUserId |-> u,
                         issued |-> onSuccess(outcome.value, u)]
       ELSE last' = [op |-> c.op, via |-> c.via, userId |-> c.userId,
                     sent |-> c.sent, resp |-> resp, outcome |-> outcome,
                     ran |-> FALSE, cbUserId |-> NullStr, issued |-> <<>>]
    /\ UNCHANGED <<baseUrl, props, pureIn, pureOut, helper, opts, query, memo>>

MutationRespond ==
    \E c \in BagToSet(inflight), body \in WriteBodies :
        SettleMutation(c, Responded(body), AwaitReturned(c, body))

MutationThrow ==
    \E c \in BagToSet(inflight), e \in TransportErrors :
        SettleMutation(c, Threw(e), AwaitThrown(e))

\* The read beside the writes, answered with a payload or a failure.
ErrReadRespond ==
    \E c \in BagToSet(inflight), body \in ErrReadBodies :
        SettleRead(c, Responded(body), AwaitReturned(c, body))

\* clearError, called while no write is pending.
ClearError ==
    /\ \A k \in MutationKinds : ~muts[k].pending
    /\ muts' = clearError(muts)
    /\ muts' # muts
    /\ UNCHANGED <<baseUrl, inflight, last, props, pureIn, pureOut, helper, opts, query, memo>>

(***************************************************************************)
(* Several callers on one client: every method runs up to its await, and   *)
(* the transport settles the calls in flight in any order.                 *)
(***************************************************************************)
StartConcurrent(c) ==
    /\ BagCardinality(inflight) < MaxConcurrent
    /\ inflight' = inflight (+) SetToBag({c})
    /\ UNCHANGED <<rest, baseUrl, last, props, pureIn, pureOut>>

ConcurrentGetUser ==
    \E a \in Callers :
        StartConcurrent(Call("getUser", "client", a.userId, "", NoData, a.token,
                             getUser(a.userId, a.token)))

ConcurrentGetHistories ==
    \E a \in Callers :
        StartConcurrent(Call("getHistories", "client", a.userId, "", NoData, a.token,
                             getHistories(a.userId, a.token)))

ConcurrentCreateHistory ==
    \E a \in Callers, d \in HookCreateRequests :
        StartConcurrent(Call("createHistory", "client", a.userId, "", d, a.token,
                             createHistory(a.userId, d, a.token)))

ConcurrentUpdateHistory ==
    \E a \in Callers, h \in HistoryIds, d \in UpdateRequests :
        StartConcurrent(Call("updateHistory", "client", a.userId, h, d, a.token,
                             updateHistory(a.userId, h, d, a.token)))

ConcurrentDeleteHistory ==
    \E a \in Callers, h \in HistoryIds :
        StartConcurrent(Call("deleteHistory", "client", a.userId, h, NoData, a.token,
                             deleteHistory(a.userId, h, a.token)))

ConcurrentGetHistoriesTotal ==
    StartConcurrent(Call("getHistoriesTotal", "client", NullStr, "", NoData, NullStr,
                         getHistoriesTotal))

ConcurrentRespond ==
    \E c \in BagToSet(inflight), body \in WriteBodies :
        Settle(c, Responded(body), AwaitReturned(c, body))

(***************************************************************************)
(* A render of either hook with a base URL and a transport.                *)
(***************************************************************************)
RenderClient(hook) ==
    \E url \in BaseUrls, networkClient \in NetworkClients :
        LET cell == useMemoClient(memo[hook].cell, url, networkClient,
                                  memo.created + 1)
            constructed == cell.client.id # memo[hook].cell.client.id
        IN  /\ constructed => memo.created < MaxClients
            /\ memo' = [memo EXCEPT
                          ![hook] = [cell |-> cell, args |-> <<url, networkClient>>],
                          !.created = IF constructed THEN @ + 1 ELSE @]
            /\ UNCHANGED <<baseUrl, inflight, last, props, pureIn, pureOut,
                           helper, opts, query, muts>>

RenderUseHistories ==
    /\ "useHistories" \in MemoHooks
    /\ RenderClient("useHistories")

RenderUseHistoriesTotal ==
    /\ "useHistoriesTotal" \in MemoHooks
    /\ RenderClient("useHistoriesTotal")

(***************************************************************************)
(* useHistories rendered with or without a user id, a token and an         *)
(* `enabled` option, and its writes.                                       *)
(***************************************************************************)
RenderGate ==
    \E u \in GateUserIds, t \in GateTokens, o \in EnabledOptions :
        /\ query.hook = "useHistories"
        /\ props' = [userId |-> u, token |-> t]
        /\ opts' = o
        /\ <<props', opts'>> # <<props, opts>>
        /\ query' = [query EXCEPT !.enabled = HookEnabled(query.hook, o, u, t)]
        /\ UNCHANGED <<baseUrl, inflight, last, pureIn, pureOut, helper, muts, memo>>

GateRespond ==
    \E c \in BagToSet(inflight), body \in WriteBodies :
        Settle(c, Responded(body), AwaitReturned(c, body))

(***************************************************************************)
(* Specifications.                                                         *)
(***************************************************************************)
\* Direct calls on one client.
Next ==
    \/ ClientGetUser
    \/ ClientGetHistories
    \/ ClientCreateHistory
    \/ ClientUpdateHistory
    \/ ClientDeleteHistory
    \/ ClientGetHistoriesTotal
    \/ TransportRespond
    \/ TransportThrow

Spec == Init /\ [][Next]_vars

\* The writes of useHistories over its client.
NextHook ==
    \/ Render
    \/ HookCreateHistory
    \/ HookUpdateHistory
    \/ HookDeleteHistory
    \/ TransportRespond
    \/ TransportThrow

SpecHook == InitHook /\ [][NextHook]_vars

\* The helpers of starter-helpers.ts.
NextPure ==
    \/ ApplyBuildUrl
    \/ ApplyCreateAuthHeaders
    \/ ApplyCreateHeaders

SpecPure == InitPure /\ [][NextPure]_vars

NextHelpers ==
    \/ ApplyQueryKeys
    \/ ApplyHandleApiError

SpecHelpers == InitHelpers /\ [][NextHelpers]_vars

NextRead ==
    \/ RenderRead
    \/ QueryFetch
    \/ Refetch
    \/ ReadRespond
    \/ ReadThrow

SpecRead == InitRead /\ [][NextRead]_vars

NextErr ==
    \/ MutateCreate
    \/ MutateUpdate
    \/ MutateDelete
    \/ MutationRespond
    \/ MutationThrow
    \/ QueryFetch
    \/ ErrReadRespond
    \/ ClearError

SpecErr == InitErr /\ [][NextErr]_vars

NextConcurrent ==
    \/ ConcurrentGetUser
    \/ ConcurrentGetHistories
    \/ ConcurrentCreateHistory
    \/ ConcurrentUpdateHistory
    \/ ConcurrentDeleteHistory
    \/ ConcurrentGetHistoriesTotal
    \/ ConcurrentRespond
    \/ TransportThrow

SpecConcurrent == Init /\ [][NextConcurrent]_vars

NextGate ==
    \/ RenderGate
    \/ HookCreateHistory
    \/ HookUpdateHistory
    \/ HookDeleteHistory
    \/ GateRespond
    \/ TransportThrow

SpecGate == InitGate /\ [][NextGate]_vars

NextMemo ==
    \/ RenderUseHistories
    \/ RenderUseHistoriesTotal

SpecMemo == InitMemo /\ [][NextMemo]_vars

(***************************************************************************)
(* Properties.                                                             *)
(***************************************************************************)
InFlight == BagToSet(inflight)
WriteOps == {"createHistory", "updateHistory", "deleteHistory"}
IssuedKeys == {last.issued[i] : i \in DOMAIN last.issued}

\* The call settled last was a write of the hook whose validated envelope
\* has success === true.
HookWriteSucceeded ==
    /\ last.via = "hook"
    /\ last.op \in WriteOps
    /\ last.outcome.kind = "resolved"
    /\ last.outcome.value.success = VBool(TRUE)

\* C1 as stated: after every write of the hook whose envelope has
\* success === true, the history-list key of the user the write was issued
\* for and the global-total key have both been invalidated.
C1_BothKeysAlways ==
    HookWriteSucceeded =>
        /\ QueryKeyHistories(TemplateStr(last.userId)) \in IssuedKeys
        /\ QueryKeyHistoriesTotal \in IssuedKeys

\* C1 as amended: after every write of the hook whose envelope has
\* success === true the global-total key has been invalidated, and with it
\* the history-list key of the user id the invalidate callback holds exactly
\* when that user id is neither null nor empty; no other key is invalidated.
C1_InvalidatesOnSuccess ==
    HookWriteSucceeded =>
        /\ last.ran
        /\ QueryKeyHistoriesTotal \in IssuedKeys
        /\ Truthy(last.cbUserId) =>
              IssuedKeys = {QueryKeyHistories(last.cbUserId.s), QueryKeyHistoriesTotal}
        /\ ~Truthy(last.cbUserId) => IssuedKeys = {QueryKeyHistoriesTotal}

C1_Witness ==
    /\ HookWriteSucceeded
    /\ last.op = "updateHistory"
    /\ last.cbUserId = Str("user-123")
    /\ Len(last.issued) = 2

\* C2: cache keys are invalidated only by the step in which the transport
\* answers a write of the hook, and only when that answer is an envelope
\* with success === true; a write whose envelope has success === false,
\* whose transport call threw or whose response failed validation has
\* invalidated nothing.
C2_NoneWithoutSuccess ==
    /\ last.issued # <<>> => HookWriteSucceeded /\ last.resp.kind = "body"
                             /\ last.resp.body.success = VBool(TRUE)
    /\ (last.resp.kind = "error" \/ last.outcome.kind = "rejected"
        \/ last.outcome.value.success # VBool(TRUE)) => last.issued = <<>>

\* C2: in every execution the above holds of the call settled last, and the
\* record of issued invalidations changes only in a step in which the
\* transport settles a call in flight.
C2_InvalidationOnlyAfterSuccess ==
    /\ []C2_NoneWithoutSuccess
    /\ [][last' # last => BagCardinality(inflight') < BagCardinality(inflight)]_vars

C2_Witness ==
    /\ last.via = "hook"
    /\ last.resp.kind = "body"
    /\ last.resp.body.success = VBool(FALSE)
    /\ last.outcome.kind = "resolved"
    /\ last.issued = <<>>

\* The envelope shape of the specification: non-null, an object, holding
\* the key `success` with a value that is true or false.
IsEnvelope(b) ==
    /\ ~b.nul
    /\ b.t = "object"
    /\ "success" \in b.has
    /\ b.success \in {VBool(TRUE), VBool(FALSE)}

\* C3: a client operation resolves with the response body exactly when the
\* body is non-null, an object, has the key `success` and that value is a
\* boolean; for every other body (null, undefined, a string, an object
\* without `success`, `success: "yes"`) it rejects.
C3_ResolvesIffEnvelope ==
    last.resp.kind = "body" =>
        /\ last.outcome.kind \in {"resolved", "rejected"}
        /\ (last.outcome.kind = "resolved") <=> IsEnvelope(last.resp.body)
        /\ last.outcome.kind = "resolved" => last.outcome.value = last.resp.body
        /\ last.resp.body \in
              { Prim(VNull), BUndefined, Prim(VStr("not an object")),
                Obj({}, VUndefined, VUndefined, VUndefined),
                Obj({"success", "data"}, VStr("yes"), VObj("{}"), VUndefined) }
              => last.outcome.kind = "rejected"

C3_Witness ==
    /\ last.op = "getHistoriesTotal"
    /\ last.resp.kind = "body"
    /\ last.resp.body.success = VStr("yes")
    /\ last.outcome.kind = "rejected"

\* The call settled last rejected because its response body is no envelope.
RejectedByValidator == last.resp.kind = "body" /\ last.outcome.kind = "rejected"

\* C4 as stated: the validator's message is `Invalid API response for
\* <operation>: response does not match expected envelope shape`.
C4_EnvelopeShapeMessage ==
    RejectedByValidator =>
        last.outcome.err.message =
            "Invalid API response for " \o last.op
            \o ": response does not match expected envelope shape"

\* C4 as amended: the validator's message is `Invalid API response for
\* <operation>: response does not match expected BaseResponse shape`, with
\* the name of the operation that was called.
C4_BaseResponseShapeMessage ==
    RejectedByValidator =>
        last.outcome.err =
            Err("Error", "Invalid API response for " \o last.op
                         \o ": response does not match expected BaseResponse shape")

C4_Witness ==
    /\ RejectedByValidator
    /\ last.op = "updateHistory"
    /\ last.resp.body = Prim(VStr("not an object"))

\* C5: a well-formed envelope with success === false is the resolved value
\* of the operation, its `error` field as the transport gave it; the
\* operation does not reject.
C5_BusinessFailureReturned ==
    (last.resp.kind = "body" /\ IsEnvelope(last.resp.body)
     /\ last.resp.body.success = VBool(FALSE)) =>
        /\ last.outcome.kind = "resolved"
        /\ last.outcome.value = last.resp.body
        /\ last.outcome.value.error = last.resp.body.error

C5_Witness ==
    /\ last.op = "deleteHistory"
    /\ last.resp.kind = "body"
    /\ last.resp.body.success = VBool(FALSE)
    /\ last.outcome.kind = "resolved"
    /\ last.outcome.value.error = VStr("Not found")

\* C6: when the transport call throws, the operation rejects with the very
\* error thrown, and every call makes exactly one transport call.
C6_TransportErrorUnmodified ==
    /\ last.resp.kind = "error" =>
          /\ last.outcome.kind = "rejected"
          /\ last.outcome.err = last.resp.err
          /\ last.sent = 1
    /\ last.op # "" => last.sent = 1
    /\ \A c \in InFlight : c.sent = 1

C6_Witness ==
    /\ last.op = "createHistory"
    /\ last.resp.kind = "error"
    /\ last.resp.err = Err("NetworkError", "connection refused")
    /\ last.outcome.kind = "rejected"

\* The operation table of the specification.
TableMethod(op) ==
    CASE op \in {"getUser", "getHistories", "getHistoriesTotal"} -> "GET"
      [] op = "createHistory" -> "POST"
      [] op = "updateHistory" -> "PUT"
      [] op = "deleteHistory" -> "DELETE"

TablePath(op, userId, historyId) ==
    CASE op = "getUser" -> "/api/v1/users/" \o userId
      [] op \in {"getHistories", "createHistory"} ->
             "/api/v1/users/" \o userId \o "/histories"
      [] op \in {"updateHistory", "deleteHistory"} ->
             "/api/v1/users/" \o userId \o "/histories/" \o historyId
      [] op = "getHistoriesTotal" -> "/api/v1/histories/total"

TableHasBody(op) == op \in {"createHistory", "updateHistory"}

\* C7: the transport call of every operation carries the method, the URL
\* buildUrl(baseUrl, path) and the body of the operation table, the body
\* being the request the caller passed.
C7_RequestPerTable ==
    \A c \in InFlight :
        /\ c.req.method = TableMethod(c.op)
        /\ c.req.url = buildUrl(baseUrl, TablePath(c.op, c.userId.s, c.historyId))
        /\ c.req.url = "https://api.example.com"
                       \o TablePath(c.op, c.userId.s, c.historyId)
        /\ c.req.body.present = TableHasBody(c.op)
        /\ TableHasBody(c.op) => c.req.body.data = c.data

C7_Witness ==
    \E c \in InFlight :
        /\ c.op = "updateHistory"
        /\ c.req.method = "PUT"
        /\ c.req.url = "https://api.example.com/api/v1/users/user-123/histories/hist-456"
        /\ c.req.body = WithBody(ReqData({"value"}, "", 200))
        /\ baseUrl = "https://api.example.com/"

\* C8: every transport call carries Content-Type and Accept
\* application/json; the five user-scoped operations carry Authorization:
\* Bearer <the call's token> besides, and getHistoriesTotal carries no
\* Authorization header.
C8_HeadersPerOperation ==
    \A c \in InFlight :
        /\ {"Content-Type", "Accept"} \subseteq DOMAIN c.req.headers
        /\ c.req.headers["Content-Type"] = "application/json"
        /\ c.req.headers["Accept"] = "application/json"
        /\ c.op # "getHistoriesTotal" =>
              /\ "Authorization" \in DOMAIN c.req.headers
              /\ c.req.headers["Authorization"] = "Bearer " \o c.token.s
        /\ c.op = "getHistoriesTotal" => "Authorization" \notin DOMAIN c.req.headers

C8_Witness ==
    /\ \E c \in InFlight : c.op = "getHistoriesTotal"

\* C9: buildUrl(b, p) is b without its last character when that is '/', b
\* itself otherwise, followed by p: so a base x + "/" gives what x gives
\* when x does not end in '/', and a base ending in "//" keeps one '/'.
C9_BuildUrlStripsOneSlash ==
    (pureOut.done /\ pureIn.fn = "buildUrl") =>
        LET b == pureIn.base
            p == pureIn.path
            url == pureOut.url
        IN  /\ ~EndsWithSlash(b) => url = b \o p
            /\ EndsWithSlash(b) =>
                  \E x \in Strings : x \o "/" = b /\ url = x \o p
            /\ \A x \in Strings :
                  (~EndsWithSlash(x) /\ x \o "/" = b) => url = buildUrl(x, p)
            /\ (Len(b) >= 2 /\ SubSeq(b, Len(b) - 1, Len(b)) = "//") =>
                  /\ Len(url) = Len(b) - 1 + Len(p)
                  /\ EndsWithSlash(SubSeq(url, 1, Len(url) - Len(p)))

C9_Witness ==
    /\ pureOut.done
    /\ pureIn.fn = "buildUrl"
    /\ pureIn.base = "a//"
    /\ pureIn.path = "/a"
    /\ pureOut.url = "a//a"

\* C10: createAuthHeaders(t) has exactly the three entries Content-Type and
\* Accept, both application/json, and Authorization = "Bearer " + t for
\* any t as it is; createHeaders() has exactly the two entries Content-Type
\* and Accept.
C10_HeaderMappings ==
    /\ (pureOut.done /\ pureIn.fn = "createAuthHeaders") =>
          /\ DOMAIN pureOut.headers = {"Content-Type", "Accept", "Authorization"}
          /\ Cardinality(DOMAIN pureOut.headers) = 3
          /\ pureOut.headers["Content-Type"] = "application/json"
          /\ pureOut.headers["Accept"] = "application/json"
          /\ pureOut.headers["Authorization"] = "Bearer " \o pureIn.token
    /\ (pureOut.done /\ pureIn.fn = "createHeaders") =>
          /\ DOMAIN pureOut.headers = {"Content-Type", "Accept"}
          /\ Cardinality(DOMAIN pureOut.headers) = 2
          /\ pureOut.headers["Content-Type"] = "application/json"
          /\ pureOut.headers["Accept"] = "application/json"
          /\ "Authorization" \notin DOMAIN pureOut.headers

C10_Witness ==
    /\ pureOut.done
    /\ pureIn.fn = "createAuthHeaders"
    /\ pureIn.token = "a/:"
    /\ pureOut.headers["Authorization"] = "Bearer a/:"

\* C11: the cache-key factories return the stated tuples, the same tuple
\* for the same user id, and history-list keys that differ when the user
\* ids differ.
C11_KeyShapesAndDeterminism ==
    (helper.fn = "QUERY_KEYS" /\ helper.done) =>
        /\ helper.keys.histories1 = <<"starter", "histories", helper.u1>>
        /\ helper.keys.user1 = <<"starter", "user", helper.u1>>
        /\ helper.keys.total = <<"starter", "histories", "total">>
        /\ helper.keys.again = helper.keys.histories1
        /\ helper.keys.totalAgain = helper.keys.total
        /\ (helper.u1 = helper.u2 => helper.keys.histories1 = helper.keys.histories2)
        /\ (helper.u1 # helper.u2 => helper.keys.histories1 # helper.keys.histories2)

C11_Witness ==
    /\ helper.fn = "QUERY_KEYS" /\ helper.done
    /\ helper.u1 = "u1" /\ helper.u2 = "u2"
    /\ helper.keys.histories1 # helper.keys.histories2

\* C12: for every user id the history-list key, the global-total key and
\* the profile key are pairwise unequal.
C12_KeysPairwiseUnequal ==
    (helper.fn = "QUERY_KEYS" /\ helper.done) =>
        /\ helper.keys.histories1 # helper.keys.total
        /\ helper.keys.histories1 # helper.keys.user1
        /\ helper.keys.total # helper.keys.user1

\* The fields handleApiError reads, as the claim names them: r.data.error
\* and r.data.message of a response that is an object with an object `data`.
ApiApplied == helper.fn = "handleApiError" /\ helper.done
ApiHasData ==
    /\ helper.response.t = "object" /\ ~helper.response.nul
    /\ helper.response.data.t = "object" /\ ~helper.response.data.nul
ApiField(name) ==
    IF ~ApiHasData THEN VUndefined
    ELSE IF name = "error" THEN helper.response.data.error
    ELSE helper.response.data.message
ApiPresent(name) == ApiField(name).t # "undefined"
ApiNonEmpty(name) == ApiField(name).t = "string" /\ ApiField(name).s # ""

\* C17 as stated: the message is "Failed to <op>: <m>" with m the `error`
\* field if present, else the `message` field if present, else
\* "Unknown error".
C17_ErrorIfPresent ==
    ApiApplied =>
        /\ helper.returned.name = "Error"
        /\ helper.returned.message =
             "Failed to " \o helper.operation \o ": " \o
                (IF ApiPresent("error") THEN ApiField("error").s
                 ELSE IF ApiPresent("message") THEN ApiField("message").s
                 ELSE "Unknown error")

\* C17, amended: handleApiError returns an Error whose message is
\* "Failed to <op>: <m>" with m the `error` field if it is a non-empty
\* string, else the `message` field if it is a non-empty string, else
\* "Unknown error"; a non-empty `error` wins over `message`.
C17_ErrorIfNonEmpty ==
    ApiApplied =>
        /\ helper.returned.name = "Error"
        /\ helper.returned.message =
             "Failed to " \o helper.operation \o ": " \o
                (IF ApiNonEmpty("error") THEN ApiField("error").s
                 ELSE IF ApiNonEmpty("message") THEN ApiField("message").s
                 ELSE "Unknown error")

C17_Witness ==
    /\ ApiApplied
    /\ ApiNonEmpty("error") /\ ApiNonEmpty("message")
    /\ helper.operation = "fetch histories"
    /\ helper.returned.message = "Failed to fetch histories: User not found"

\* A string-or-null that is neither null nor empty.
Present(v) == v # NullStr /\ v # Str("")
OverrideTrueOrAbsent == opts = VUndefined \/ opts = VBool(TRUE)
ReadSettled == last.via \in {"query", "refetch"}
ReadBusinessFailure(resp) ==
    /\ resp.kind = "body"
    /\ IsEnvelope(resp.body)
    /\ resp.body.success = VBool(FALSE)

\* C13: the history-list read is enabled exactly when the user id and the
\* token are present and the override is true or absent, and a getHistories
\* call of the hook is in flight only if the read was enabled when the call
\* was issued.
C13_EnabledIffAndNoCallWhileDisabled ==
    query.hook = "useHistories" =>
        /\ query.enabled <=>
              (Present(props.userId) /\ Present(props.token) /\ OverrideTrueOrAbsent)
        /\ (query.fetching => query.startedEnabled)

\* C15: the total hook's read is enabled exactly when the override is true
\* or absent; its total is 0 without data and the `total` of the payload of
\* the last successful read otherwise; its error is the message of the
\* error the last read threw, and null when there is none.
C15_TotalHookProjections ==
    query.hook = "useHistoriesTotal" =>
        /\ query.enabled <=> OverrideTrueOrAbsent
        /\ (query.data = VUndefined => useHistoriesTotalTotal(query.data) = VNum("0"))
        /\ \A n \in PayloadTotals :
              query.data = TotalPayload(n) => useHistoriesTotalTotal(query.data) = VNum(n)
        /\ (query.data = VUndefined \/ \E n \in PayloadTotals : query.data = TotalPayload(n))
        /\ ((ReadSettled /\ ~query.fetching /\ last.outcome.kind = "resolved"
             /\ last.outcome.value.success = VBool(TRUE)
             /\ last.outcome.value.data \in ReadPayloads("useHistoriesTotal")) =>
                /\ query.data = last.outcome.value.data
                /\ ErrorMessage(query.error) = NullStr)
        /\ ((ReadSettled /\ ~query.fetching /\ last.resp.kind = "error") =>
                ErrorMessage(query.error) = Str(last.resp.err.message))
        /\ (~ReadSettled => ErrorMessage(query.error) = NullStr)
        /\ \A c \in BagToSet(inflight) :
              c.req.headers = [h \in {"Content-Type", "Accept"} |-> "application/json"]

C15_Witness ==
    /\ query.hook = "useHistoriesTotal"
    /\ opts = VUndefined /\ query.enabled
    /\ last.via = "query"
    /\ query.data = TotalPayload("42")
    /\ useHistoriesTotalTotal(query.data) = VNum("42")
    /\ ErrorMessage(query.error) = Str("Not found")

\* The settling of a read answered with success === false.
C16_FailureStep ==
    (/\ BagCardinality(inflight') < BagCardinality(inflight)
     /\ last'.via \in {"query", "refetch"}
     /\ ReadBusinessFailure(last'.resp)) =>
        /\ query'.data = query.data
        /\ query'.error # NoError
        /\ query'.error.name = "Error"
        /\ (last'.resp.body.error.t = "string" /\ last'.resp.body.error.s # "" =>
                query'.error.message = last'.resp.body.error.s)

\* C16: in both read hooks a read answered with success === false leaves
\* the cached data as it was and puts an error on the query, whose message
\* is the envelope's `error` when that is a non-empty string.
C16_BusinessFailureThrown == [][C16_FailureStep]_vars

C16_Witness ==
    /\ ReadSettled /\ ~query.fetching
    /\ ReadBusinessFailure(last.resp)
    /\ last.resp.body.data # VUndefined
    /\ query.data # VUndefined
    /\ query.data # last.resp.body.data
    /\ query.error.message = "Denied"

\* The `error` field useHistories returns.
HookError == useHistoriesError(query, muts)
HookWriteSettled == last.via = "hook" /\ last.op \in MutationKinds

\* C14: the `error` field is the read error's message when there is a read
\* error, otherwise the message of the write error recorded last among
\* create, update and delete, otherwise null.
C14_MostRecentWriteError ==
    query.hook = "useHistories" =>
        HookError =
            IF query.error # NoError THEN Str(query.error.message)
            ELSE IF muts.recent # <<>>
                 THEN Str(muts[Head(muts.recent)].error.message)
                 ELSE NullStr

\* A write of the hook answered with success === false has just settled,
\* and no read, other write or clearError came between its call and now.
BusinessFailureWritten ==
    /\ HookWriteSettled
    /\ ReadBusinessFailure(last.resp)
    /\ muts.snap.state = "closed"
    /\ muts.snap.kind = last.op

\* C20 as stated: a write answered with a business failure resolves with
\* the envelope and the `error` field is after it what it was before it.
C20_ErrorFieldUnchanged ==
    BusinessFailureWritten =>
        /\ last.outcome = Resolved(last.resp.body)
        /\ HookError = muts.snap.before

\* After such a write: resolved, nothing recorded, and the `error` field
\* changed at most by losing this mutation's earlier error.
C20_FailureRecordsNothing ==
    BusinessFailureWritten =>
        /\ last.outcome = Resolved(last.resp.body)
        /\ muts[last.op].error = NoError
        /\ (HookError # muts.snap.before =>
                /\ muts.snap.own # NoError
                /\ muts.snap.before = Str(muts.snap.own.message))
C20_SettleStep ==
    (/\ BagCardinality(inflight') < BagCardinality(inflight)
     /\ last'.via = "hook" /\ last'.op \in MutationKinds) =>
        /\ (ReadBusinessFailure(last'.resp) =>
                useHistoriesError(query', muts') = useHistoriesError(query, muts))
        /\ (muts'[last'.op].error # NoError <=>
                (last'.resp.kind = "error" \/ ~IsEnvelope(last'.resp.body)))
        /\ (last'.resp.kind = "error" => muts'[last'.op].error = last'.resp.err)
        /\ (last'.resp.kind = "body" /\ ~IsEnvelope(last'.resp.body) =>
                muts'[last'.op].error = last'.outcome.err)

\* C20, amended: a write answered with a business failure resolves with
\* the envelope and records no error; settling it leaves the `error` field
\* as it is, and the field differs from what it was before the call only
\* in having lost the error this same mutation had recorded earlier.  A
\* mutation records an error exactly when its call was rejected, by the
\* transport's error or by the validator.
C20_BusinessFailureNoWriteError ==
    /\ []C20_FailureRecordsNothing
    /\ [][C20_SettleStep]_vars

C20_Witness ==
    /\ BusinessFailureWritten
    /\ muts.snap.before # NullStr
    /\ HookError = NullStr

\* The request of a call as its own arguments and the client's base URL
\* give it, and the outcome of a call as its own response gives it.
OwnRequest(c) ==
    Request(TableMethod(c.op),
            "https://api.example.com" \o TablePath(c.op, c.userId.s, c.historyId),
            IF c.op = "getHistoriesTotal"
            THEN [h \in {"Content-Type", "Accept"} |-> "application/json"]
            ELSE [h \in {"Content-Type", "Accept", "Authorization"} |->
                    IF h = "Authorization" THEN "Bearer " \o c.token.s
                    ELSE "application/json"],
            IF TableHasBody(c.op) THEN WithBody(c.data) ELSE NoBody)
OwnOutcome(op, resp) ==
    IF resp.kind = "error" THEN Rejected(resp.err)
    ELSE IF IsEnvelope(resp.body) THEN Resolved(resp.body)
    ELSE Rejected(Err("Error", "Invalid API response for " \o op
                      \o ": response does not match expected BaseResponse shape"))

C18_CallsIndependent ==
    /\ \A c \in InFlight : c.req = OwnRequest(c)
    /\ last.op # "" => last.outcome = OwnOutcome(last.op, last.resp)
C18_ClientStep ==
    /\ baseUrl' = baseUrl
    /\ inflight' # inflight =>
          \/ \E c \in BagToSet(inflight') : inflight' = inflight (+) SetToBag({c})
          \/ \E c \in BagToSet(inflight) : inflight' = inflight (-) SetToBag({c})

\* C18: the client's base URL never changes after construction, and with
\* several calls in flight, settled in any order, the request of each call
\* is the one its own arguments give and its outcome the one its own
\* response gives; a step starts or settles one call and leaves the others
\* as they are.
C18_ClientStatelessUnderInterleaving ==
    /\ []C18_CallsIndependent
    /\ [][C18_ClientStep]_vars

C18_Witness ==
    /\ last.op = "createHistory"
    /\ last.userId = Str("user-b")
    /\ last.outcome.kind = "resolved"
    /\ \E c1, c2 \in InFlight :
          /\ c1.op = "getUser" /\ c2.op = "getUser"
          /\ c1.token = Str("token-abc") /\ c2.token = Str("tok2")
          /\ c1.req.headers["Authorization"] = "Bearer token-abc"
          /\ c2.req.headers["Authorization"] = "Bearer tok2"

Cell(h) == memo[h].cell
C19_ClientOfCurrentPair ==
    /\ \A h \in MemoHooks :
          Cell(h).mounted =>
              /\ Cell(h).client.baseUrl = memo[h].args[1]
              /\ Cell(h).client.networkClient = memo[h].args[2]
              /\ Cell(h).client.id \in 1..memo.created
    /\ (Cell("useHistories").mounted /\ Cell("useHistoriesTotal").mounted) =>
          Cell("useHistories").client.id # Cell("useHistoriesTotal").client.id
C19_RenderStep ==
    \A h \in MemoHooks :
        (memo'[h] # memo[h] \/ memo' = memo) =>
            /\ (Cell(h).mounted /\ memo'[h].args # memo[h].args) =>
                  /\ memo'[h].cell.client.id # Cell(h).client.id
                  /\ memo'[h].cell.client.id = memo'.created
                  /\ memo'.created = memo.created + 1
            /\ (Cell(h).mounted /\ memo'[h].args = memo[h].args) =>
                  memo'[h].cell.client = Cell(h).client

\* C19: in either hook a render whose base URL or transport differs from
\* the previous render's gets a newly constructed client and a render with
\* the same pair keeps the instance; the client in use is constructed from
\* the current pair, and the two hooks never hold the same instance.
C19_ClientReplacedIffPairChanged ==
    /\ []C19_ClientOfCurrentPair
    /\ [][C19_RenderStep]_vars

C19_Witness ==
    /\ Cell("useHistories").mounted /\ Cell("useHistoriesTotal").mounted
    /\ memo.useHistories.args = memo.useHistoriesTotal.args
    /\ Cell("useHistories").client.id = 3
    /\ Cell("useHistories").client.networkClient = "networkClient2"
    /\ memo.created = 3

\* A write of the hook in flight, or settled, that was called with a null
\* user id.
HookCalls == {c \in InFlight : c.via = "hook"}
NullUserWriteSucceeded == HookWriteSucceeded /\ last.userId = NullStr

\* C21 as stated: the three writes can always be called, their requests
\* are built from the render's user id and token, null or not, and a
\* successful write called with a null user id invalidates only the
\* global-total key.
C21_NullUserWriteInvalidatesTotalOnly ==
    /\ BagCardinality(inflight) < MaxInFlight =>
          ENABLED HookCreateHistory /\ ENABLED HookUpdateHistory
          /\ ENABLED HookDeleteHistory
    /\ \A c \in HookCalls :
          c.req.headers["Authorization"] = "Bearer " \o TemplateStr(c.token)
    /\ NullUserWriteSucceeded => IssuedKeys = {QueryKeyHistoriesTotal}

\* The callback that runs when a write of the hook resolved holds the user
\* id of the render that called the write or of the current render.
C21_CallbackStep ==
    (/\ BagCardinality(inflight') < BagCardinality(inflight)
     /\ last'.via = "hook" /\ last'.ran) =>
        last'.cbUserId \in {last'.userId, props.userId}

\* What holds of the writes of the hook in every state.
C21_WriteState ==
    /\ BagCardinality(inflight) < MaxInFlight =>
          ENABLED HookCreateHistory /\ ENABLED HookUpdateHistory
          /\ ENABLED HookDeleteHistory
    /\ \A c \in HookCalls :
          /\ c.op \in WriteOps
          /\ c.req.url = "https://api.example.com/api/v1/users/"
                \o (IF c.userId = NullStr THEN "null" ELSE c.userId.s)
                \o "/histories"
                \o (IF c.op = "createHistory" THEN "" ELSE "/" \o c.historyId)
          /\ c.req.headers["Authorization"] =
                "Bearer " \o (IF c.token = NullStr THEN "null" ELSE c.token.s)
    /\ HookWriteSucceeded =>
          /\ (IssuedKeys = {QueryKeyHistoriesTotal}) <=> ~Truthy(last.cbUserId)
          /\ Truthy(last.cbUserId) =>
                IssuedKeys = {QueryKeyHistories(last.cbUserId.s), QueryKeyHistoriesTotal}

\* C21, amended: the three writes can be called whatever the user id, the
\* token and `enabled` are; the request is built from the render's user id
\* and token, a null one giving the path segment and the bearer "null";
\* and a successful write invalidates only the global-total key exactly
\* when the user id its invalidate callback holds is null or empty, which
\* is the user id of the render that called the write or of the render
\* current when it settles.
C21_WritesNotGated ==
    /\ []C21_WriteState
    /\ [][C21_CallbackStep]_vars

C21_Witness ==
    /\ NullUserWriteSucceeded
    /\ ~query.enabled
    /\ props.userId = NullStr /\ props.token = NullStr
    /\ opts = VBool(FALSE)
    /\ IssuedKeys = {QueryKeyHistoriesTotal}
    /\ \E c \in HookCalls :
          /\ c.op = "deleteHistory"
          /\ c.req.url = "https://api.example.com/api/v1/users/null/histories/hist-456"
          /\ c.req.headers["Authorization"] = "Bearer null"

\* A read answered with success === true and no `data`, or a falsy one.
ReadWithoutData(resp) ==
    /\ resp.kind = "body"
    /\ IsEnvelope(resp.body)
    /\ resp.body.success = VBool(TRUE)
    /\ resp.body.data \in {VUndefined} \cup FalsyPayloads
DefaultMessage(hook) ==
    IF hook = "useHistories" THEN "Failed to fetch histories"
    ELSE "Failed to fetch total"

\* The settling of such a read, and any change of the cached data.
C22_NoDataStep ==
    /\ (/\ BagCardinality(inflight') < BagCardinality(inflight)
        /\ last'.via \in {"query", "refetch"}
        /\ ReadWithoutData(last'.resp)) =>
           /\ query'.data = query.data
           /\ query'.error =
                Err("Error",
                    IF last'.resp.body.error.t = "string" /\ last'.resp.body.error.s # ""
                    THEN last'.resp.body.error.s
                    ELSE DefaultMessage(query.hook))
    /\ query'.data # query.data =>
           /\ last'.resp.kind = "body"
           /\ last'.resp.body.success = VBool(TRUE)
           /\ query'.data = last'.resp.body.data
           /\ query'.data \in ReadPayloads(query.hook)

\* The cached data and the projections of the two hooks.
C22_DataAndProjections ==
    /\ query.data = VUndefined \/ query.data \in ReadPayloads(query.hook)
    /\ query.data # VNull
    /\ query.hook = "useHistories" =>
          /\ (useHistoriesHistories(query.data) = EMPTY_HISTORIES) <=>
                query.data = VUndefined
          /\ query.data # VUndefined => useHistoriesHistories(query.data) = query.data
    /\ query.hook = "useHistoriesTotal" =>
          /\ query.data = VUndefined => useHistoriesTotalTotal(query.data) = VNum("0")
          /\ query.data # VUndefined =>
                useHistoriesTotalTotal(query.data) = FieldTotal(query.data)

\* C22: in both read hooks a read answered with success === true and no or
\* a falsy `data` is thrown with the envelope's non-empty `error` or else
\* the hook's default message and leaves the cached data as it was; the
\* cached data is undefined until a read succeeded and a payload after,
\* never null, and the projections fall back to the empty list / 0 only
\* while it is undefined.
C22_MissingDataIsFailedRead ==
    /\ []C22_DataAndProjections
    /\ [][C22_NoDataStep]_vars

C22_Witness ==
    /\ query.hook = "useHistoriesTotal"
    /\ ReadSettled /\ ~query.fetching
    /\ ReadWithoutData(last.resp)
    /\ last.resp.body.data = VNull
    /\ query.error = Err("Error", "Failed to fetch total")
    /\ query.data = TotalPayload("42")
    /\ useHistoriesTotalTotal(query.data) = VNum("42")
====
